---- MODULE Spec2Model ----
(***************************************************************************)
(* A model of the Vibbo integration (custom_components/vibbo):             *)
(*   - auth.py         the login-flow walker and the organization lookups  *)
(*   - config_flow.py  the setup wizard (VibboConfigFlow) and the options  *)
(*                     flow (VibboOptionsFlow)                             *)
(*   - coordinator.py  the polling coordinator (VibboDataCoordinator)      *)
(*   - __init__.py     async_setup_entry / async_unload_entry / reload     *)
(*   - sensor.py       the feed sensor                                     *)
(*                                                                         *)
(* Python exceptions are values [type, msg]; str(err) is the sequence of   *)
(* the message's parts, and `"x" in str(err)` is membership of a part.     *)
(* Every HTTP response is an input chosen by the environment.              *)
(***************************************************************************)
EXTENDS Integers, Sequences, FiniteSets, TLC

VARIABLES
    (* ---- the setup wizard: one VibboConfigFlow instance at a time ---- *)
    step,            \* step_id of the form shown, or "create_entry" / "raised"
    errors,          \* errors["base"] of the form shown ("" when errors == {})
    phone_number,    \* self._phone_number
    session,         \* self._session: "none" or "open"
    auth_session,    \* self._auth_session
    cookie,          \* self._cookie
    memberships,     \* self._memberships
    selected,        \* self._selected_membership
    flows,           \* wizard runs started so far
    submits,         \* form submissions of the current wizard run
    shown,           \* step ids of the forms shown in the current wizard run
    attempt,         \* the login attempt of the latest user-step submission
    last,            \* what the latest wizard handler did
    (* ---- the host's config entries and their runtime ---- *)
    entries,         \* entry id -> config entry (data, options) or NoEntry
    estate,          \* entry id -> the host's ConfigEntryState
    pc,              \* entry id -> where async_setup_entry is suspended
    coord,           \* entry id -> the VibboDataCoordinator of the entry
    hass_data,       \* hass.data[DOMAIN]: entry ids stored, frontend flag
    listener,        \* entry id -> update listener registered
    inflight,        \* entry id -> _async_update_data calls awaiting HTTP
    timer,           \* entry id -> minutes to the scheduled refresh, 0: none
    reload_pending,  \* entry id -> a reload waits for the entry's setup lock
    cards,           \* executions of _async_register_card
    polls,           \* entry id -> poll cycles started (bounded)
    cycle,           \* entry id -> the latest poll cycle of the entry
    reading,         \* the latest read of a sensor's state and attributes
    lovelace,        \* the card file, the Lovelace resources, pending retries
    (* ---- the login-flow walker on its own ---- *)
    walk,            \* one walk through the handshake: position, latest call
    (* ---- the Lovelace resources collection on its own ---- *)
    registry         \* its items, the card URL, the latest _try_register run

flowVars == <<step, errors, phone_number, session, auth_session, cookie,
              memberships, selected, flows, submits, shown, attempt, last>>
hostVars == <<estate, pc, coord, hass_data, listener, inflight, timer,
              reload_pending, cards, polls, cycle, reading, lovelace>>
vars == <<flowVars, entries, hostVars, walk, registry>>

(* ------------------------------ bounds ------------------------------ *)
MaxSubmits == 4
MaxFlows == 2
NumEntries == 2
MaxRows == 2
MaxJar == 2
MaxItems == 2
MaxPolls == 3

EntryIds == 1..NumEntries

(* ---------------------------- const.py ------------------------------ *)
DEFAULT_SCAN_INTERVAL == 30
DEFAULT_LIMIT == 10
MinScanInterval == 5

(* ------------------------- python helpers --------------------------- *)
NoExc == [type |-> "", msg |-> <<>>]
Exc(t, m) == [type |-> t, msg |-> m]
Raised(r) == r.raised.type # ""

\* `part in str(err)`
InStr(part, e) == \E i \in DOMAIN e.msg : e.msg[i] = part

StatusStr(s) == IF s = 200 THEN "200" ELSE IF s = 403 THEN "403" ELSE "500"

\* str.strip() on a string held as a sequence of characters
RECURSIVE LStrip(_)
LStrip(s) == IF s # <<>> /\ Head(s) = " " THEN LStrip(Tail(s)) ELSE s
RECURSIVE RStrip(_)
RStrip(s) ==
    IF s # <<>> /\ s[Len(s)] = " " THEN RStrip(SubSeq(s, 1, Len(s) - 1)) ELSE s
Strip(s) == RStrip(LStrip(s))

\* a try block's except clauses, first match wins; "Exception" catches every
\* exception type, a named class only itself; no match: the exception leaves
\* the handler
Catch(clauses, e) ==
    LET hits == {i \in DOMAIN clauses :
                    clauses[i].catch = "Exception" \/ clauses[i].catch = e.type}
    IN IF hits = {} THEN "propagate"
       ELSE clauses[CHOOSE i \in hits : \A j \in hits : i <= j].error

(* ------------------------------ auth.py ------------------------------ *)
NoAuth == [state |-> "", csrf |-> "", nonce |-> "", login_url |-> ""]
NoPage == [csrf |-> <<"", "", "", "">>, qs_state |-> "", qs_nonce |-> "",
           html_state |-> "", html_nonce |-> ""]

\* The login page the redirect chain ends on: what each of the four _csrf
\* patterns matches in the HTML ("" no match), the state and nonce of the final
\* URL's query string and those embedded in the HTML.
Pages ==
    {[csrf |-> <<a, b, c, d>>, qs_state |-> us, qs_nonce |-> un,
      html_state |-> hs, html_nonce |-> hn] :
        a \in {"", "c1"}, b \in {"", "c2"}, c \in {"", "c3"}, d \in {"", "c4"},
        us \in {"", "su"}, un \in {"", "nu"}, hs \in {"", "sh"}, hn \in {"", "nh"}}

FinalUrl(page) == "/login?state=" \o page.qs_state \o "&nonce=" \o page.qs_nonce

LoginRespsOf(pages) ==
    {[net |-> "exc", page |-> NoPage]} \cup {[net |-> "ok", page |-> p] : p \in pages}
LoginResps == LoginRespsOf(Pages)

\* The pages the wizard's runs are explored with: the first _csrf pattern or
\* none, the state in the URL, in the HTML or in neither, the nonce in the URL
\* or nowhere. The walker is explored with every page of Pages.
WizardPages ==
    {p \in Pages : /\ p.csrf[2] = "" /\ p.csrf[3] = "" /\ p.csrf[4] = ""
                   /\ ~(p.qs_state # "" /\ p.html_state # "")
                   /\ p.html_nonce = ""}

\* re.search(p1) or re.search(p2) or re.search(p3) or re.search(p4)
CsrfMatch(page) ==
    IF page.csrf[1] # "" THEN page.csrf[1]
    ELSE IF page.csrf[2] # "" THEN page.csrf[2]
    ELSE IF page.csrf[3] # "" THEN page.csrf[3]
    ELSE page.csrf[4]

FromQsThenHtml_HtmlFirst(qs, html) == IF html # "" THEN html ELSE qs
\* qs.get(key, [None])[0], then the HTML pattern when that is empty
FromQsThenHtml(qs, html) == IF qs # "" THEN qs ELSE html

StartLogin(resp) ==
    LET page == resp.page
        csrf == CsrfMatch(page)
        state == FromQsThenHtml(page.qs_state, page.html_state)
        nonce == FromQsThenHtml(page.qs_nonce, page.html_nonce)
    IN IF resp.net = "exc"
         THEN [raised |-> Exc("ClientError", <<"start_login">>), auth |-> NoAuth]
       ELSE IF csrf = ""
         THEN [raised |-> Exc("AuthError", <<"Could not find _csrf token in login page">>),
               auth |-> NoAuth]
       ELSE IF state = ""
         THEN [raised |-> Exc("AuthError", <<"Could not find state in login page">>),
               auth |-> NoAuth]
       ELSE IF nonce = ""
         THEN [raised |-> Exc("AuthError", <<"Could not find nonce in login page">>),
               auth |-> NoAuth]
       ELSE [raised |-> NoExc,
             auth |-> [state |-> state, csrf |-> csrf, nonce |-> nonce,
                       login_url |-> FinalUrl(page)]]

\* text a server puts in a response body or an error message
ServerTexts == {"denied", "Verification failed"}
HttpResps ==
    {[net |-> "exc", status |-> 0, text |-> ""]}
    \cup {[net |-> "ok", status |-> s, text |-> t] : s \in {200, 403}, t \in ServerTexts}

\* the response of a request that is never sent
NoHttp == [net |-> "none", status |-> 0, text |-> ""]
\* the responses a request can get, when it is sent
HttpRespsIf(sent) == IF sent THEN HttpResps ELSE {NoHttp}

Req(op, auth, ok) == [op |-> op, auth |-> auth, ok |-> ok]

RequestSmsCode(auth, phone, resp) ==
    IF resp.net = "exc"
      THEN [raised |-> Exc("ClientError", <<"request_sms_code">>),
            reqs |-> <<Req("request_sms", auth, FALSE)>>]
    ELSE IF resp.status # 200
      THEN [raised |-> Exc("AuthError", <<"Failed to request SMS code:",
                                          StatusStr(resp.status), resp.text>>),
            reqs |-> <<Req("request_sms", auth, FALSE)>>]
    ELSE [raised |-> NoExc, reqs |-> <<Req("request_sms", auth, TRUE)>>]

\* The session's cookie jar after the redirect chain.
CookieKeys == {"sesid", "sesid.sig", "other"}
CookieValues == {"", "A", "B"}
Cookies == [key : CookieKeys, value : CookieValues]
Jars == UNION {[1..n -> Cookies] : n \in 0..MaxJar}

\* The jars the wizard's runs are explored with: one value per cookie name.
WizardJars ==
    {j \in Jars : \A i \in DOMAIN j :
        /\ j[i].key # "other"
        /\ j[i].value \in {"", IF j[i].key = "sesid" THEN "A" ELSE "B"}}

\* for cookie in session.cookie_jar: if cookie.key == key: v = cookie.value
JarValue_AnyKey(jar, key) == IF jar = <<>> THEN "" ELSE jar[Len(jar)].value
RECURSIVE JarValue(_, _)
JarValue(jar, key) ==
    IF jar = <<>> THEN ""
    ELSE IF jar[Len(jar)].key = key THEN jar[Len(jar)].value
    ELSE JarValue(SubSeq(jar, 1, Len(jar) - 1), key)

VerifyCodeAndGetCookie_NoStatusCheck(sess, auth, phone, code, post, get, jar) ==
    LET sesid == JarValue(jar, "sesid")
        sesid_sig == JarValue(jar, "sesid.sig")
        p == Req("verify_post", auth, post.net = "ok" /\ post.status = 200)
        g == Req("verify_redirect", auth, get.net = "ok")
    IN IF sess = "none"
         THEN [raised |-> Exc("AttributeError", <<"NoneType", "post">>),
               cookie |-> "", reqs |-> <<>>]
       ELSE IF get.net = "exc"
         THEN [raised |-> Exc("ClientError", <<"verify_redirect">>),
               cookie |-> "", reqs |-> <<p, g>>]
       ELSE IF sesid = "" \/ sesid_sig = ""
         THEN [raised |-> Exc("AuthError",
                              <<"Failed to obtain Vibbo session cookies after login">>),
               cookie |-> "", reqs |-> <<p, g>>]
       ELSE [raised |-> NoExc,
             cookie |-> "sesid=" \o sesid \o "; sesid.sig=" \o sesid_sig,
             reqs |-> <<p, g>>]

VerifyCodeAndGetCookie(sess, auth, phone, code, post, get, jar) ==
    LET sesid == JarValue(jar, "sesid")
        sesid_sig == JarValue(jar, "sesid.sig")
        p == Req("verify_post", auth, post.net = "ok" /\ post.status = 200)
        g == Req("verify_redirect", auth, get.net = "ok")
    IN IF sess = "none"
         THEN [raised |-> Exc("AttributeError", <<"NoneType", "post">>),
               cookie |-> "", reqs |-> <<>>]
       ELSE IF post.net = "exc"
         THEN [raised |-> Exc("ClientError", <<"verify">>),
               cookie |-> "", reqs |-> <<p>>]
       ELSE IF post.status # 200
         THEN [raised |-> Exc("AuthError", <<"Verification failed", ":",
                                             StatusStr(post.status), post.text>>),
               cookie |-> "", reqs |-> <<p>>]
       ELSE IF get.net = "exc"
         THEN [raised |-> Exc("ClientError", <<"verify_redirect">>),
               cookie |-> "", reqs |-> <<p, g>>]
       ELSE IF sesid = "" \/ sesid_sig = ""
         THEN [raised |-> Exc("AuthError",
                              <<"Failed to obtain Vibbo session cookies after login">>),
               cookie |-> "", reqs |-> <<p, g>>]
       ELSE [raised |-> NoExc,
             cookie |-> "sesid=" \o sesid \o "; sesid.sig=" \o sesid_sig,
             reqs |-> <<p, g>>]

(* GraphQL responses of vibbo.no: the transport's outcome, the HTTP status and
   the shape of the JSON body.
     "not_dict"      the body is JSON null
     "errors_msg"    {"errors": [{"message": text}]}
     "errors_nomsg"  {"errors": [{}]}
     "errors_bad"    {"errors": ["text"]}
     "data_null"     {"data": null}
     "no_payload"    {"data": {}}
     "payload"       {"data": {"viewer": {"memberships": rows}}} for the
                     organization list, {"data": {"organization": {"id": id}}}
                     for the organization lookup *)
Slugs == {"s1", "s2"}
Rows == [slug : Slugs, vibboEnabled : BOOLEAN]
RowLists == UNION {[1..n -> Rows] : n \in 0..MaxRows}
OrgIdOf(slug) == "T-" \o slug
NameOf(slug) == "Borettslag " \o slug

GqlResp(net, status, kind, text, rows, id) ==
    [net |-> net, status |-> status, kind |-> kind, text |-> text,
     rows |-> rows, id |-> id]
GqlFailures ==
    {GqlResp("exc", 0, "", "", <<>>, ""), GqlResp("ok", 403, "", "", <<>>, "")}
    \cup {GqlResp("ok", 200, k, "", <<>>, "") :
            k \in {"not_dict", "errors_nomsg", "errors_bad", "data_null", "no_payload"}}
    \cup {GqlResp("ok", 200, "errors_msg", t, <<>>, "") : t \in ServerTexts}
OrgsResps ==
    GqlFailures \cup {GqlResp("ok", 200, "payload", "", r, "") : r \in RowLists}
NoGql == GqlResp("none", 0, "", "", <<>>, "")
OrgsRespsIf(sent) == IF sent THEN OrgsResps ELSE {NoGql}
OrgIdResps(slug) ==
    GqlFailures \cup {GqlResp("ok", 200, "payload", "", <<>>, i) : i \in {"", OrgIdOf(slug)}}

\* _graphql: the exception it raises, NoExc when it returns the body
Graphql(operation_name, resp) ==
    IF resp.net = "exc" THEN Exc("ClientError", <<operation_name>>)
    ELSE IF resp.status # 200
      THEN Exc("AuthError", <<"GraphQL query", operation_name, "failed:",
                              StatusStr(resp.status)>>)
    ELSE IF resp.kind = "not_dict" THEN Exc("TypeError", <<"in", "NoneType">>)
    ELSE IF resp.kind = "errors_bad" THEN Exc("AttributeError", <<"str", "get">>)
    ELSE IF resp.kind = "errors_msg" THEN Exc("AuthError", <<"GraphQL error:", resp.text>>)
    ELSE IF resp.kind = "errors_nomsg" THEN Exc("AuthError", <<"GraphQL error:", "[{}]">>)
    ELSE NoExc

\* the memberships with vibboEnabled, in the server's order
RECURSIVE Enabled(_)
Enabled(rows) ==
    IF rows = <<>> THEN <<>>
    ELSE (IF Head(rows).vibboEnabled
            THEN <<[name |-> NameOf(Head(rows).slug), slug |-> Head(rows).slug]>>
            ELSE <<>>) \o Enabled(Tail(rows))

FetchOrganizations(cookie_, resp) ==
    LET e == Graphql("vibboOrganizations", resp)
        ms == Enabled(resp.rows)
    IN IF e # NoExc THEN [raised |-> e, memberships |-> <<>>]
       ELSE IF resp.kind = "data_null"
         THEN [raised |-> Exc("AttributeError", <<"NoneType", "get">>),
               memberships |-> <<>>]
       ELSE IF resp.kind = "no_payload"
         THEN [raised |-> Exc("AuthError", <<"No viewer data in response">>),
               memberships |-> <<>>]
       ELSE IF ms = <<>>
         THEN [raised |-> Exc("AuthError",
                              <<"No Vibbo-enabled organizations found for this account">>),
               memberships |-> <<>>]
       ELSE [raised |-> NoExc, memberships |-> ms]

FetchOrganizationId(cookie_, slug, resp) ==
    LET e == Graphql("vibboOrganization", resp)
    IN IF e # NoExc THEN [raised |-> e, org_id |-> ""]
       ELSE IF resp.kind = "data_null"
         THEN [raised |-> Exc("AttributeError", <<"NoneType", "get">>), org_id |-> ""]
       ELSE IF resp.kind = "no_payload"
         THEN [raised |-> Exc("AuthError", <<"Could not find organization for slug:", slug>>),
               org_id |-> ""]
       ELSE IF resp.id = ""
         THEN [raised |-> Exc("AuthError", <<"Organization has no ID:", slug>>),
               org_id |-> ""]
       ELSE [raised |-> NoExc, org_id |-> resp.id]

(* --------------------------- config_flow.py -------------------------- *)
NoMembership == [name |-> "", slug |-> ""]
NoEntry == [unique_id |-> "", title |-> "",
            data |-> [cookie |-> "", organization_id |-> "", organization_slug |-> ""],
            options |-> [scan_interval |-> 0]]
NoAttempt == [login |-> NoAuth, sms_ok |-> FALSE]
Last(op, raised, reqs, accepted) ==
    [op |-> op, raised |-> raised, reqs |-> reqs, accepted |-> accepted,
     scan_interval |-> 0]
\* the same for a submission of the interval form
LastInterval(op, raised, accepted, v) ==
    [Last(op, raised, <<>>, accepted) EXCEPT !.scan_interval = v]

\* what the user types into the forms
PhoneInputs == {<<"9", "1">>, <<" ", "9", "1", " ">>, <<"+", "4", "6", "9">>}
CodeInputs == {<<"1", "2">>, <<"1", "2", " ">>}
ScanInputs == {4, 5, 45}

\* phone = user_input["phone_number"].strip(); "+47" is put before a number
\* that does not start with "+"
NormalizePhone(raw) ==
    LET phone == Strip(raw)
    IN IF phone # <<>> /\ Head(phone) = "+" THEN phone ELSE <<"+", "4", "7">> \o phone

\* vol.All(int, vol.Range(min=5))
ScanIntervalSchema_NoRange(v) == v \in Int
ScanIntervalSchema(v) == v \in Int /\ v >= MinScanInterval

\* vol.In({m.slug: m.name for m in self._memberships})
OrganizationSchema(ms, slug) == \E i \in DOMAIN ms : ms[i].slug = slug

\* next(m for m in self._memberships if m.slug == slug)
FirstWithSlug(ms, slug) ==
    ms[CHOOSE i \in DOMAIN ms :
          ms[i].slug = slug /\ \A j \in DOMAIN ms : ms[j].slug = slug => i <= j]

\* the except clauses of the three handlers that have a try block
UserExcept_NoCatchAll == <<[catch |-> "AuthError", error |-> "auth_error"]>>
UserExcept ==
    <<[catch |-> "AuthError", error |-> "auth_error"],
      [catch |-> "Exception", error |-> "unknown"]>>

VerifyExcept_NoCatchAll == <<[catch |-> "AuthError", error |-> "AuthError"]>>
VerifyExcept ==
    <<[catch |-> "AuthError", error |-> "AuthError"],
      [catch |-> "Exception", error |-> "unknown"]>>

OptionsExcept_NoCatchAll == <<[catch |-> "AuthError", error |-> "cannot_connect"]>>
OptionsExcept ==
    <<[catch |-> "AuthError", error |-> "cannot_connect"],
      [catch |-> "Exception", error |-> "unknown"]>>

\* if "Verification failed" in str(err): invalid_code, else cannot_connect
VerifyAuthError(e) ==
    IF InStr("Verification failed", e) THEN "invalid_code" ELSE "cannot_connect"

VerifyErrorKey(e) ==
    LET k == Catch(VerifyExcept, e)
    IN IF k = "AuthError" THEN VerifyAuthError(e) ELSE k

\* if len(self._memberships) == 1: options, else select_organization
StepAfterOrganizations_AtLeastOne(ms) ==
    IF Len(ms) >= 1 THEN "options" ELSE "select_organization"
StepAfterOrganizations(ms) ==
    IF Len(ms) = 1 THEN "options" ELSE "select_organization"

\* _abort_if_unique_id_configured
UniqueIdConfigured(uid) == \E e \in EntryIds : entries[e].unique_id = uid

ShowForm(s, err) ==
    /\ step' = s
    /\ errors' = err
    /\ shown' = shown \cup {s}

\* an exception no except clause catches leaves the handler: AbortFlow makes
\* the host abort the flow, any other exception ends it with an error
Leave(e) ==
    /\ step' = IF e.type = "AbortFlow" THEN "abort" ELSE "raised"
    /\ errors' = ""
    /\ shown' = shown

\* the host validates user_input against the form's schema before it calls
\* the step; an invalid input leaves the form as it is
Rejected(op, v) ==
    /\ last' = LastInterval(op, NoExc, FALSE, v)
    /\ submits' = submits + 1
    /\ UNCHANGED <<step, errors, phone_number, session, auth_session, cookie,
                   memberships, selected, flows, shown, attempt, entries, hostVars, walk, registry>>

\* _cleanup_session: an open session is closed and self._session set to None
CleanupSession_Keep(sess) == sess
CleanupSession(sess) == IF sess = "open" THEN "none" ELSE sess

\* async_step_user with user_input
UserSubmit ==
    /\ step = "user"
    /\ submits < MaxSubmits
    /\ \E raw \in PhoneInputs, lr \in LoginRespsOf(WizardPages) :
       \E sr \in HttpRespsIf(~Raised(StartLogin(lr))) :
         LET phone == NormalizePhone(raw)
             login == StartLogin(lr)
             sms == RequestSmsCode(login.auth, phone, sr)
             raised == IF Raised(login) THEN login.raised ELSE sms.raised
             reqs == <<Req("start_login", NoAuth, ~Raised(login))>>
                     \o (IF Raised(login) THEN <<>> ELSE sms.reqs)
             key == Catch(UserExcept, raised)
         IN /\ phone_number' = phone
            /\ auth_session' = IF Raised(login) THEN auth_session ELSE login.auth
            /\ attempt' = [login |-> login.auth,
                           sms_ok |-> ~Raised(login) /\ ~Raised(sms)]
            /\ last' = Last("user", raised, reqs, TRUE)
            /\ IF raised = NoExc
                 THEN /\ session' = "open"
                      /\ ShowForm("verify_code", "")
               ELSE IF key = "propagate"
                 THEN /\ session' = "open"
                      /\ Leave(raised)
               ELSE /\ session' = CleanupSession("open")
                    /\ ShowForm("user", key)
    /\ submits' = submits + 1
    /\ UNCHANGED <<cookie, memberships, selected, flows, entries, hostVars, walk, registry>>

\* async_step_verify_code with user_input
VerifySubmit ==
    /\ step = "verify_code"
    /\ submits < MaxSubmits
    /\ \E raw \in CodeInputs, post \in HttpRespsIf(session # "none") :
       \E get \in HttpRespsIf(post.net = "ok" /\ post.status = 200) :
       \E jar \in (IF get.net = "ok" THEN WizardJars ELSE {<<>>}) :
       \E orgs \in OrgsRespsIf(~Raised(VerifyCodeAndGetCookie(session, auth_session,
                                  phone_number, Strip(raw), post, get, jar))) :
         LET v == VerifyCodeAndGetCookie(session, auth_session, phone_number,
                                         Strip(raw), post, get, jar)
             f == FetchOrganizations(v.cookie, orgs)
             raised == IF Raised(v) THEN v.raised ELSE f.raised
             key == VerifyErrorKey(raised)
             next == StepAfterOrganizations(f.memberships)
         IN /\ cookie' = IF Raised(v) THEN cookie ELSE v.cookie
            /\ last' = Last("verify_code", raised, v.reqs, TRUE)
            /\ IF raised = NoExc
                 THEN /\ session' = CleanupSession(session)
                      /\ memberships' = f.memberships
                      /\ selected' = IF next = "options" THEN f.memberships[1]
                                     ELSE selected
                      /\ ShowForm(next, "")
               ELSE /\ memberships' = memberships
                    /\ selected' = selected
                    /\ IF key = "propagate"
                         THEN /\ session' = IF Raised(v) THEN session
                                            ELSE CleanupSession(session)
                              /\ Leave(raised)
                         ELSE /\ session' = IF Raised(v) /\ key # "unknown"
                                            THEN session
                                            ELSE CleanupSession(session)
                              /\ ShowForm("verify_code", key)
    /\ submits' = submits + 1
    /\ UNCHANGED <<phone_number, auth_session, flows, attempt, entries, hostVars, walk, registry>>

\* async_step_select_organization with user_input
SelectSubmit ==
    /\ step = "select_organization"
    /\ submits < MaxSubmits
    /\ \E slug \in Slugs :
         IF ~OrganizationSchema(memberships, slug)
           THEN Rejected("select_organization", 0)
         ELSE /\ selected' = FirstWithSlug(memberships, slug)
              /\ ShowForm("options", "")
              /\ last' = Last("select_organization", NoExc, <<>>, TRUE)
              /\ submits' = submits + 1
              /\ UNCHANGED <<phone_number, session, auth_session, cookie, memberships,
                             flows, attempt, entries, hostVars, walk, registry>>

FreeEntryIds == {e \in EntryIds : entries[e] = NoEntry}

\* async_step_options with user_input, _create_entry_for_membership included
OptionsSubmit ==
    /\ step = "options"
    /\ submits < MaxSubmits
    /\ FreeEntryIds # {}
    /\ \E scan_interval \in ScanInputs, resp \in OrgIdResps(selected.slug) :
         IF ~ScanIntervalSchema(scan_interval)
           THEN Rejected("options", scan_interval)
         ELSE
           LET r == FetchOrganizationId(cookie, selected.slug, resp)
               raised == IF Raised(r) THEN r.raised
                         ELSE IF UniqueIdConfigured(selected.slug)
                           THEN Exc("AbortFlow", <<"already_configured">>)
                         ELSE NoExc
               key == Catch(OptionsExcept, raised)
               id == CHOOSE e \in FreeEntryIds : \A o \in FreeEntryIds : e <= o
           IN /\ last' = LastInterval("options", raised, TRUE, scan_interval)
              /\ submits' = submits + 1
              /\ IF raised = NoExc
                   THEN /\ entries' = [entries EXCEPT ![id] =
                              [unique_id |-> selected.slug,
                               title |-> selected.name,
                               data |-> [cookie |-> cookie,
                                         organization_id |-> r.org_id,
                                         organization_slug |-> selected.slug],
                               options |-> [scan_interval |-> scan_interval]]]
                        /\ step' = "create_entry"
                        /\ errors' = ""
                        /\ shown' = shown
                 ELSE /\ entries' = entries
                      /\ IF key = "propagate" THEN Leave(raised)
                         ELSE ShowForm("options", key)
              /\ UNCHANGED <<phone_number, session, auth_session, cookie, memberships,
                             selected, flows, attempt, hostVars, walk, registry>>

\* The user starts the wizard again: VibboConfigFlow.__init__, then the host
\* calls async_step_user without input, which shows the user form.
FlowInit ==
    /\ step = "create_entry"
    /\ flows < MaxFlows
    /\ flows' = flows + 1
    /\ submits' = 0
    /\ phone_number' = <<>>
    /\ session' = "none"
    /\ auth_session' = NoAuth
    /\ cookie' = ""
    /\ memberships' = <<>>
    /\ selected' = NoMembership
    /\ step' = "user"
    /\ errors' = ""
    /\ shown' = {"user"}
    /\ attempt' = NoAttempt
    /\ last' = Last("init", NoExc, <<>>, TRUE)
    /\ UNCHANGED <<entries, hostVars, walk, registry>>

(* --------------------------- coordinator.py -------------------------- *)
(* The JSON body of a poll response, by the shape of the parts the code    *)
(* reads:                                                                  *)
(*   top     "dict" | "list" | "null"                                      *)
(*   data    body["data"]: "absent" | "null" | "num" | "dict" | "list"     *)
(*           (a list without the string "stream") | "list_stream" (a list  *)
(*           that holds the string "stream")                               *)
(*   stream  body["data"]["stream"]: "absent" | "null" | "list" | "dict"   *)
(*   items   stream["items"]: "absent" | "null" | "list", with its list    *)
(*   errors  body["errors"]: "absent" | "null" | "empty" ([]) |            *)
(*           "list_dict_msg" ([{"message": ..}]) | "list_dict" ([{}]) |    *)
(*           "list_str" (["..."]) | "str" | "dict" | "num"                 *)
\* A string is the sequence of its characters' code points.
Title(n) == [i \in 1..n |-> 64 + i]
NoDataText == <<78, 111, 32, 68, 97, 116, 97>>
Ellipsis == 8230

\* An element of the item list, by the shape of the parts the sensor reads:
\*   elem   the element itself: "dict" | "null"
\*   item   element["item"]: "absent" | "null" | "str" | "dict"
\*   title  element["item"]["title"]: "absent" | "null" | "num" | "str", with
\*          its text
Item(elem, item, title, text) ==
    [elem |-> elem, item |-> item, title |-> title, text |-> text]
ItemUniverse == {Item("dict", "dict", "str", Title(n)) : n \in {2, 3}}
ItemLists == UNION {[1..n -> ItemUniverse] : n \in 0..MaxItems}
NoData == [kind |-> "none", list |-> <<>>]
ListData(l) == [kind |-> "list", list |-> l]

Body(top, data, stream, items, list, errs) ==
    [top |-> top, data |-> data, stream |-> stream, items |-> items,
     list |-> list, errors |-> errs]
ErrorShapes ==
    {"absent", "null", "empty", "list_dict_msg", "list_dict", "list_str", "str",
     "dict", "num"}
GoodBody == Body("dict", "dict", "dict", "list", <<>>, "absent")
Bodies ==
    {Body(t, "absent", "absent", "absent", <<>>, "absent") : t \in {"list", "null"}}
    \cup {Body("dict", d, "absent", "absent", <<>>, x) :
            d \in {"absent", "null", "num", "list", "list_stream", "dict"},
            x \in ErrorShapes}
    \cup {Body("dict", "dict", st, "absent", <<>>, x) :
            st \in {"null", "list"}, x \in {"absent", "list_str"}}
    \cup {Body("dict", "dict", "dict", i, <<>>, x) :
            i \in {"absent", "null"}, x \in {"absent", "list_dict_msg"}}
    \cup {Body("dict", "dict", "dict", "list", l, x) :
            l \in ItemLists, x \in {"absent", "list_dict_msg"}}

PollResp(net, status, json, body) ==
    [net |-> net, status |-> status, json |-> json, body |-> body]
NoPollResp == PollResp("none", 0, "", GoodBody)
PollResps ==
    {PollResp(n, 0, "", GoodBody) : n \in {"exc", "timeout"}}
    \cup {PollResp("ok", s, "ok", GoodBody) : s \in {403, 500}}
    \cup {PollResp("ok", 200, "bad", GoodBody)}
    \cup {PollResp("ok", 200, "ok", b) : b \in Bodies}

UpdateFailed(m) == Exc("UpdateFailed", m)
Returned(d) == [raised |-> NoExc, data |-> d]
Raise(e) == [raised |-> e, data |-> NoData]

\* the branch taken when the body fails the shape test: errors =
\* data.get("errors", []); if errors: errors[0].get("message", errors)
InvalidResponse(b) ==
    IF b.errors \in {"absent", "null", "empty"}
      THEN Raise(UpdateFailed(<<"Invalid response from Vibbo API">>))
    ELSE IF b.errors = "list_dict_msg"
      THEN Raise(UpdateFailed(<<"Vibbo API error:", "message">>))
    ELSE IF b.errors = "list_dict"
      THEN Raise(UpdateFailed(<<"Vibbo API error:", "[{}]">>))
    ELSE IF b.errors \in {"list_str", "str"}
      THEN Raise(Exc("AttributeError", <<"str", "get">>))
    ELSE IF b.errors = "dict" THEN Raise(Exc("KeyError", <<"0">>))
    ELSE Raise(Exc("TypeError", <<"int", "not subscriptable">>))

\* _async_update_data after the status test: resp.json() and the shape test
ReadBody(resp) ==
    LET b == resp.body
    IN IF resp.json # "ok"
         THEN Raise(UpdateFailed(<<"Error communicating with Vibbo:", "json">>))
       ELSE IF b.top # "dict"
         THEN Raise(UpdateFailed(<<"Invalid response from Vibbo API">>))
       ELSE IF b.data = "absent" THEN InvalidResponse(b)
       \* "stream" not in data.get("data", {})
       ELSE IF b.data \in {"null", "num"}
         THEN Raise(Exc("TypeError", <<"argument is not iterable">>))
       ELSE IF b.data = "list" THEN InvalidResponse(b)
       \* data["data"]["stream"] on a list
       ELSE IF b.data = "list_stream"
         THEN Raise(Exc("TypeError", <<"list indices must be integers">>))
       ELSE IF b.stream = "absent" THEN InvalidResponse(b)
       \* data["data"]["stream"].get("items", [])
       ELSE IF b.stream \in {"null", "list"}
         THEN Raise(Exc("AttributeError", <<"get">>))
       ELSE IF b.items = "absent" THEN Returned(ListData(<<>>))
       ELSE IF b.items = "null" THEN Returned(NoData)
       ELSE Returned(ListData(b.list))

\* _async_update_data from the response of session.post on
UpdateData_NoStatusCheck(resp) ==
    IF resp.net # "ok"
      THEN Raise(UpdateFailed(<<"Error communicating with Vibbo:", resp.net>>))
    ELSE ReadBody(resp)
UpdateData(resp) ==
    IF resp.net # "ok"
      THEN Raise(UpdateFailed(<<"Error communicating with Vibbo:", resp.net>>))
    ELSE IF resp.status # 200
      THEN Raise(UpdateFailed(<<"Vibbo API returned HTTP", StatusStr(resp.status)>>))
    ELSE ReadBody(resp)

NoCoord == [cookie |-> "", org_id |-> "", limit |-> 0, api_version |-> "",
            update_interval |-> 0, data |-> NoData, last_update_success |-> FALSE]

\* entry.options.get(CONF_SCAN_INTERVAL, DEFAULT_SCAN_INTERVAL); an options
\* mapping without the key holds 0 here
ScanIntervalOption(options) ==
    IF options.scan_interval = 0 THEN DEFAULT_SCAN_INTERVAL ELSE options.scan_interval

\* VibboDataCoordinator.__init__
CoordinatorInit_DefaultInterval(entry) ==
    [cookie |-> entry.data.cookie,
     org_id |-> entry.data.organization_id,
     limit |-> DEFAULT_LIMIT,
     api_version |-> "577",
     update_interval |-> DEFAULT_SCAN_INTERVAL,
     data |-> NoData,
     last_update_success |-> TRUE]
CoordinatorInit(entry) ==
    [cookie |-> entry.data.cookie,
     org_id |-> entry.data.organization_id,
     limit |-> DEFAULT_LIMIT,
     api_version |-> "577",
     update_interval |-> ScanIntervalOption(entry.options),
     data |-> NoData,
     last_update_success |-> TRUE]

\* CoordinatorEntity.available of the feed sensor, once the entity is added
Available(e) == e \in hass_data.coordinators /\ coord[e].last_update_success

(* ---------------------------- __init__.py ---------------------------- *)
\* the payload variables and the headers of the POST
NoPollRequest == [cookie |-> "", organization_id |-> "", limit |-> 0, x_version |-> ""]
PollRequest_NoCookie(c) ==
    [cookie |-> "", organization_id |-> c.org_id, limit |-> c.limit,
     x_version |-> c.api_version]
PollRequest(c) ==
    [cookie |-> c.cookie, organization_id |-> c.org_id, limit |-> c.limit,
     x_version |-> c.api_version]

NoCycle == [phase |-> "none", kind |-> "", posts |-> 0, request |-> NoPollRequest,
            resp |-> NoPollResp, raised |-> NoExc, outcome |-> "none",
            built_from |-> 0]
NewCycle(kind, outcome, built_from, request) ==
    [phase |-> "fetching", kind |-> kind, posts |-> 1, request |-> request,
     resp |-> NoPollResp, raised |-> NoExc, outcome |-> outcome,
     built_from |-> built_from]

\* _async_update_data up to the await of session.post: one request is sent
\* and the call is suspended; `running` are the entry's calls still in flight.
\* The host has no refresh scheduled while it awaits the call.
UpdateDataStart_NotAwaited(e, running) ==
    /\ inflight' = [inflight EXCEPT ![e] = running + 1]
    /\ timer' = [timer EXCEPT ![e] = coord'[e].update_interval]
UpdateDataStart(e, running) ==
    /\ inflight' = [inflight EXCEPT ![e] = running + 1]
    /\ timer' = [timer EXCEPT ![e] = 0]

\* async_setup_entry up to the await of the first refresh
AsyncSetupEntryStart(e, entry, running) ==
    /\ estate' = [estate EXCEPT ![e] = "setup_in_progress"]
    /\ pc' = [pc EXCEPT ![e] = "first_refresh"]
    /\ coord' = [coord EXCEPT ![e] = CoordinatorInit(entry)]
    /\ cycle' = [cycle EXCEPT ![e] =
                    NewCycle("first", "none", entry.options.scan_interval,
                             PollRequest(CoordinatorInit(entry)))]
    /\ polls' = [polls EXCEPT ![e] = @ + 1]
    /\ UpdateDataStart(e, running)

\* the host sets up an entry that is not loaded, or retries after
\* ConfigEntryNotReady
SetupStart(e) ==
    /\ entries[e] # NoEntry
    /\ estate[e] \in {"not_loaded", "setup_retry"}
    /\ polls[e] < MaxPolls
    /\ AsyncSetupEntryStart(e, entries[e], inflight[e])
    /\ UNCHANGED <<flowVars, entries, hass_data, listener, reload_pending, cards, reading, lovelace, walk, registry>>

\* The response of the request in flight arrives and _async_update_data
\* returns or raises. For the first refresh async_setup_entry goes on: it
\* stores the coordinator, forwards the sensor platform (the entity starts
\* listening, which schedules the refresh), registers the update listener and
\* registers the card when the flag is not set; a failed first refresh raises
\* ConfigEntryNotReady. For a scheduled refresh the host records the outcome
\* and schedules the next refresh after update_interval.
PollResolve(e, resp) ==
    LET r == UpdateData(resp)
        ok == ~Raised(r)
        c == [coord[e] EXCEPT !.data = IF ok THEN r.data ELSE @,
                              !.last_update_success = ok]
    IN /\ inflight[e] > 0
       /\ inflight' = [inflight EXCEPT ![e] = @ - 1]
       /\ cycle' = [cycle EXCEPT ![e] =
                      [@ EXCEPT !.phase = "idle", !.resp = resp, !.raised = r.raised,
                                !.outcome = IF ok THEN "success" ELSE "failed"]]
       /\ IF pc[e] = "first_refresh"
            THEN IF ok
                   THEN /\ coord' = [coord EXCEPT ![e] = c]
                        /\ hass_data' = [hass_data EXCEPT !.coordinators = @ \cup {e}]
                        /\ timer' = [timer EXCEPT ![e] = c.update_interval]
                        /\ listener' = [listener EXCEPT ![e] = TRUE]
                        /\ IF hass_data.frontend_registered
                             THEN /\ pc' = [pc EXCEPT ![e] = "idle"]
                                  /\ estate' = [estate EXCEPT ![e] = "loaded"]
                             ELSE /\ pc' = [pc EXCEPT ![e] = "register_card"]
                                  /\ estate' = estate
                   ELSE /\ coord' = [coord EXCEPT ![e] = NoCoord]
                        /\ pc' = [pc EXCEPT ![e] = "idle"]
                        /\ estate' = [estate EXCEPT ![e] = "setup_retry"]
                        /\ UNCHANGED <<hass_data, timer, listener>>
            ELSE /\ coord' = [coord EXCEPT ![e] = c]
                 /\ timer' = [timer EXCEPT ![e] =
                                IF e \in hass_data.coordinators
                                  THEN c.update_interval ELSE @]
                 /\ UNCHANGED <<hass_data, listener, pc, estate>>
       /\ UNCHANGED <<flowVars, entries, reload_pending, cards, polls, reading, lovelace, walk, registry>>

\* The card file and the Lovelace resources: whether frontend/vibbo-feed-card.js
\* exists, the resource mode, whether the resources collection is loaded, the
\* stored resource with the card's path ("none", "current": the present hash,
\* "stale": another hash), what this component has registered, the creates and
\* updates it has made, and the delays of its pending _try_register calls.
Lovelace(file, mode, loaded, resource) ==
    [file |-> file, mode |-> mode, loaded |-> loaded, resource |-> resource,
     static |-> FALSE, extra_js |-> FALSE, creates |-> 0, updates |-> 0,
     retries |-> <<>>]
LovelaceReady == Lovelace(TRUE, "storage", TRUE, "none")
LovelaceStates ==
    {Lovelace(TRUE, "storage", ld, r) : ld \in BOOLEAN, r \in {"none", "current", "stale"}}
    \cup {Lovelace(TRUE, "yaml", FALSE, "none"), Lovelace(FALSE, "storage", TRUE, "none")}
RetryDelay == 5

\* _try_register: retry later while the collection is not loaded; else leave a
\* resource with the present hash, update one with another hash, create one
\* when there is none
TryRegister_NoLoadedTest(l) ==
    LET items == IF l.loaded THEN l.resource ELSE "none"
    IN IF items = "current" THEN l
       ELSE IF items = "stale"
         THEN [l EXCEPT !.resource = "current", !.updates = @ + 1]
       ELSE [l EXCEPT !.resource = "current", !.creates = @ + 1]
TryRegister(l) ==
    IF ~l.loaded THEN [l EXCEPT !.retries = Append(@, RetryDelay)]
    ELSE IF l.resource = "current" THEN l
    ELSE IF l.resource = "stale"
      THEN [l EXCEPT !.resource = "current", !.updates = @ + 1]
    ELSE [l EXCEPT !.resource = "current", !.creates = @ + 1]

\* _async_register_card
AsyncRegisterCard(l) ==
    IF ~l.file THEN l
    ELSE IF l.mode # "storage" THEN [l EXCEPT !.static = TRUE, !.extra_js = TRUE]
    ELSE TryRegister([l EXCEPT !.static = TRUE])

\* _async_register_card returns and async_setup_entry sets the flag
RegisterCardDone(e) ==
    /\ pc[e] = "register_card"
    /\ cards' = cards + 1
    /\ lovelace' = AsyncRegisterCard(lovelace)
    /\ hass_data' = [hass_data EXCEPT !.frontend_registered = TRUE]
    /\ pc' = [pc EXCEPT ![e] = "idle"]
    /\ estate' = [estate EXCEPT ![e] = "loaded"]
    /\ UNCHANGED <<flowVars, entries, coord, listener, inflight, timer,
                   reload_pending, polls, cycle, reading, walk, registry>>

\* a pending _try_register comes due (async_call_later)
RetryFire ==
    /\ lovelace.retries # <<>>
    /\ lovelace' = TryRegister([lovelace EXCEPT !.retries = Tail(@)])
    /\ UNCHANGED <<flowVars, entries, estate, pc, coord, hass_data, listener,
                   inflight, timer, reload_pending, cards, polls, cycle, reading,
                   walk, registry>>

\* the host loads the resources collection
LovelaceLoads ==
    /\ lovelace.mode = "storage"
    /\ ~lovelace.loaded
    /\ lovelace' = [lovelace EXCEPT !.loaded = TRUE]
    /\ UNCHANGED <<flowVars, entries, estate, pc, coord, hass_data, listener,
                   inflight, timer, reload_pending, cards, polls, cycle, reading,
                   walk, registry>>

\* the scheduled refresh comes due
TimerFire(e) ==
    /\ timer[e] # 0
    /\ polls[e] < MaxPolls
    /\ polls' = [polls EXCEPT ![e] = @ + 1]
    /\ cycle' = [cycle EXCEPT ![e] =
                    NewCycle("scheduled", @.outcome, @.built_from,
                             PollRequest(coord[e]))]
    /\ coord' = coord
    /\ UpdateDataStart(e, inflight[e])
    /\ UNCHANGED <<flowVars, entries, estate, pc, hass_data, listener,
                   reload_pending, cards, reading, lovelace, walk, registry>>

\* async_unload_entry on hass.data[DOMAIN]: the entry's coordinator is popped
\* when the platforms were unloaded
AsyncUnloadEntry_DropEmptyDomain(hd, e, unload_ok) ==
    IF ~unload_ok THEN hd
    ELSE IF hd.coordinators \ {e} = {}
      THEN [coordinators |-> {}, frontend_registered |-> FALSE]
    ELSE [hd EXCEPT !.coordinators = @ \ {e}]
AsyncUnloadEntry(hd, e, unload_ok) ==
    IF unload_ok THEN [hd EXCEPT !.coordinators = @ \ {e}] ELSE hd

\* _async_update_listener: async_reload, which unloads the entry
\* (async_unload_entry) and, when that succeeded, sets it up again. Unloading
\* removes the entity and the listener, cancels the scheduled refresh and the
\* entry's refresh in flight, and pops the coordinator from hass.data.
Reload(e, entry, unload_ok) ==
    /\ hass_data' = AsyncUnloadEntry(hass_data, e, unload_ok)
    /\ IF unload_ok
         THEN /\ listener' = [listener EXCEPT ![e] = FALSE]
              /\ AsyncSetupEntryStart(e, entry, 0)
         ELSE /\ estate' = [estate EXCEPT ![e] = "failed_unload"]
              /\ UNCHANGED <<listener, pc, coord, cycle, polls, inflight, timer>>

\* The host unloads a loaded entry (disabled, removed, or the host stops): on
\* success the entity and the update listener are removed and the scheduled
\* refresh and the refresh in flight are cancelled.
UnloadEntry(e, unload_ok) ==
    /\ estate[e] = "loaded"
    /\ hass_data' = AsyncUnloadEntry(hass_data, e, unload_ok)
    /\ IF unload_ok
         THEN /\ estate' = [estate EXCEPT ![e] = "not_loaded"]
              /\ listener' = [listener EXCEPT ![e] = FALSE]
              /\ timer' = [timer EXCEPT ![e] = 0]
              /\ inflight' = [inflight EXCEPT ![e] = 0]
              /\ coord' = [coord EXCEPT ![e] = NoCoord]
              /\ cycle' = [cycle EXCEPT ![e] = NoCycle]
         ELSE /\ estate' = [estate EXCEPT ![e] = "failed_unload"]
              /\ UNCHANGED <<listener, timer, inflight, coord, cycle>>
    /\ UNCHANGED <<flowVars, entries, pc, reload_pending, cards, polls, reading,
                   lovelace, walk, registry>>

\* VibboOptionsFlow.async_step_init with user_input, which the host has
\* validated against the schema of the init form: the host stores the options
\* and, when they changed, calls the entry's update listeners. A reload asked
\* for while the entry is being set up waits for the setup.
OptionsFlowSubmit(e, v, unload_ok) ==
    LET changed == entries[e].options.scan_interval # v
    IN /\ entries[e] # NoEntry
       /\ IF ~ScanIntervalSchema(v)
            THEN /\ last' = LastInterval("options_init", NoExc, FALSE, v)
                 /\ UNCHANGED <<entries, estate, pc, coord, hass_data, listener,
                                inflight, timer, polls, cycle, reload_pending>>
            ELSE /\ last' = LastInterval("options_init", NoExc, TRUE, v)
                 /\ entries' = [entries EXCEPT ![e].options = [scan_interval |-> v]]
                 /\ IF changed /\ listener[e] /\ estate[e] = "loaded"
                      THEN /\ polls[e] < MaxPolls
                           /\ Reload(e, entries'[e], unload_ok)
                           /\ reload_pending' = reload_pending
                      ELSE /\ reload_pending' =
                                IF changed
                                  THEN [reload_pending EXCEPT ![e] = listener[e]]
                                  ELSE reload_pending
                           /\ UNCHANGED <<estate, pc, coord, hass_data, listener,
                                          inflight, timer, polls, cycle>>
       /\ UNCHANGED <<step, errors, phone_number, session, auth_session, cookie,
                      memberships, selected, flows, submits, shown, attempt,
                      cards, reading, lovelace, walk, registry>>

\* the waiting reload runs once the setup is over
PendingReload(e, unload_ok) ==
    /\ reload_pending[e]
    /\ estate[e] = "loaded"
    /\ polls[e] < MaxPolls
    /\ reload_pending' = [reload_pending EXCEPT ![e] = FALSE]
    /\ entries' = entries
    /\ Reload(e, entries[e], unload_ok)
    /\ UNCHANGED <<flowVars, cards, reading, lovelace, walk, registry>>

(* ------------------------------ sensor.py ----------------------------- *)
TitleLimit == 50
Value(v) == [raised |-> NoExc, value |-> v]
NoValue(e) == [raised |-> e, value |-> <<>>]

\* (title[:50] + "…") if len(title) > 50 else title
Truncate_FromFifty(title) ==
    IF Len(title) >= TitleLimit
      THEN SubSeq(title, 1, TitleLimit) \o <<Ellipsis>> ELSE title
Truncate(title) ==
    IF Len(title) > TitleLimit
      THEN SubSeq(title, 1, TitleLimit) \o <<Ellipsis>> ELSE title

\* "if self.coordinator.data": None and the empty list are false
Truthy(data) == data.kind = "list" /\ data.list # <<>>

\* VibboFeedSensor.native_value
NativeValue(data) ==
    IF ~Truthy(data) THEN Value(NoDataText)
    ELSE LET x == data.list[1]
         IN \* data[0].get on an element that is no mapping
            IF x.elem # "dict" THEN NoValue(Exc("AttributeError", <<"get">>))
            ELSE IF x.item = "absent" THEN Value(Truncate(NoDataText))
            \* .get("item", {}) gives the null or the string, which has no get
            ELSE IF x.item \in {"null", "str"}
              THEN NoValue(Exc("AttributeError", <<"get">>))
            ELSE IF x.title = "absent" THEN Value(Truncate(NoDataText))
            \* len(title) of a null or a number
            ELSE IF x.title \in {"null", "num"}
              THEN NoValue(Exc("TypeError", <<"len">>))
            ELSE Value(Truncate(x.text))

\* VibboFeedSensor.extra_state_attributes
ExtraStateAttributes_NoDefault(data, entry) ==
    [items |-> data,
     organization_slug |-> entry.data.organization_slug]
ExtraStateAttributes(data, entry) ==
    [items |-> IF Truthy(data) THEN data ELSE ListData(<<>>),
     organization_slug |-> entry.data.organization_slug]

NoReading == [entry |-> 0, polls |-> 0, phase |-> "", state |-> Value(<<>>),
              attributes |-> [items |-> NoData, organization_slug |-> ""]]

\* the host reads the state and the attributes of an entry's sensor
ReadState(e) ==
    /\ e \in hass_data.coordinators
    /\ reading' = [entry |-> e, polls |-> polls[e], phase |-> cycle[e].phase,
                   state |-> NativeValue(coord[e].data),
                   attributes |-> ExtraStateAttributes(coord[e].data, entries[e])]
    /\ UNCHANGED <<flowVars, entries, estate, pc, coord, hass_data, listener,
                   inflight, timer, reload_pending, cards, polls, cycle, lovelace, walk, registry>>

\* the titles and the item lists the sensor is read on
MaxTitle == 52
TitleLens == {0, 1, MaxTitle - 3, MaxTitle - 2, MaxTitle - 1, MaxTitle}
SensorItems ==
    {Item("null", "absent", "absent", <<>>)}
    \cup {Item("dict", i, "absent", <<>>) : i \in {"absent", "null", "str"}}
    \cup {Item("dict", "dict", t, <<>>) : t \in {"absent", "null", "num"}}
    \cup {Item("dict", "dict", "str", Title(n)) : n \in TitleLens}
SensorItemLists ==
    {<<>>} \cup {<<x>> : x \in SensorItems}
    \cup {<<x, y>> : x \in SensorItems, y \in ItemUniverse}
SensorResps ==
    {PollResp("ok", 500, "ok", GoodBody)}
    \cup {PollResp("ok", 200, "ok", Body("dict", "dict", "dict", i, <<>>, "absent")) :
            i \in {"absent", "null"}}
    \cup {PollResp("ok", 200, "ok", Body("dict", "dict", "dict", "list", l, "absent")) :
            l \in SensorItemLists}

(* ------------- the Lovelace resources collection, item by item ---------- *)
MaxResources == 2
MaxRuns == 3
FRONTEND_SCRIPT_URL == "/vibbo/vibbo-feed-card.js"

\* A URL is the sequence of its parts, "?" being the separator character.
\* str.split("?")[0]: what precedes the first "?", the whole when there is none
SplitFirst(url) ==
    LET qs == {i \in 1..Len(url) : url[i] = "?"}
    IN IF qs = {} THEN url
       ELSE SubSeq(url, 1, (CHOOSE i \in qs : \A j \in qs : i <= j) - 1)

\* the first 8 hex digits of the md5 of the card file's bytes
FileContents == {"v1", "v2"}
Md5Prefix(content) == IF content = "v1" THEN "a1" ELSE "b2"

\* _card_url: the card path, "?", the content hash; "0" when the file cannot
\* be read
CardUrl(content) ==
    <<FRONTEND_SCRIPT_URL, "?",
      IF content \in FileContents THEN Md5Prefix(content) ELSE "0">>
CardUrls == {CardUrl(c) : c \in FileContents \cup {"unreadable"}}

\* what a stored resource's URL can be: the card path bare, with a hash, with
\* two query separators, and another path
ResourceUrls ==
    CardUrls \cup {<<FRONTEND_SCRIPT_URL>>,
                   <<FRONTEND_SCRIPT_URL, "?", "a1", "?", "x">>,
                   <<"/local/other.js">>,
                   <<"/local/other.js", "?", "a1">>}
ResourceItem(id, res_type, url) == [id |-> id, res_type |-> res_type, url |-> url]
ResourceLists ==
    UNION {{[i \in 1..n |-> ResourceItem(i, "module", u[i])] : u \in [1..n -> ResourceUrls]}
             : n \in 0..MaxResources}
    \cup {<<ResourceItem(1, "js", u)>> : u \in ResourceUrls}

\* the collection before any registration: its items, whether it is loaded, the
\* card URL the closure holds, the items before the latest _try_register, how
\* that call ended, the calls made and the calls scheduled
Registry(items, loaded, card_url) ==
    [items |-> items, loaded |-> loaded, card_url |-> card_url,
     before |-> items, ended |-> "none", runs |-> 0, retries |-> 0]
NoRegistry == Registry(<<>>, FALSE, <<>>)

\* the id async_create_item gives a new item: one no stored item has
NewId(items) == Len(items) + 1

\* _try_register on the items: the first item whose URL up to "?" is the card
\* path is left alone when its URL is the card URL and updated otherwise; with
\* no such item one is created
ResourcesTryRegister_WholeUrl(r) ==
    IF ~r.loaded THEN [r EXCEPT !.retries = @ + 1, !.ended = "retry"]
    ELSE LET hits == {i \in 1..Len(r.items) : r.items[i].url = <<FRONTEND_SCRIPT_URL>>}
         IN IF hits = {}
              THEN [r EXCEPT !.items = Append(@, ResourceItem(NewId(@), "module", r.card_url)),
                             !.ended = "created"]
            ELSE LET i == CHOOSE k \in hits : \A j \in hits : k <= j
                 IN IF r.items[i].url = r.card_url THEN [r EXCEPT !.ended = "kept"]
                    ELSE [r EXCEPT !.items[i] = ResourceItem(@.id, "module", r.card_url),
                                   !.ended = "updated"]
ResourcesTryRegister(r) ==
    IF ~r.loaded THEN [r EXCEPT !.retries = @ + 1, !.ended = "retry"]
    ELSE LET hits == {i \in 1..Len(r.items) :
                         SplitFirst(r.items[i].url) = <<FRONTEND_SCRIPT_URL>>}
         IN IF hits = {}
              THEN [r EXCEPT !.items = Append(@, ResourceItem(NewId(@), "module", r.card_url)),
                             !.ended = "created"]
            ELSE LET i == CHOOSE k \in hits : \A j \in hits : k <= j
                 IN IF r.items[i].url = r.card_url THEN [r EXCEPT !.ended = "kept"]
                    ELSE [r EXCEPT !.items[i] = ResourceItem(@.id, "module", r.card_url),
                                   !.ended = "updated"]

\* one call of _try_register: the first, or one that came due
RegistryTryRegister ==
    /\ registry.runs < MaxRuns
    /\ registry.runs = 0 \/ registry.retries > 0 \/ registry.ended # "retry"
    /\ registry' = [ResourcesTryRegister(
                        [registry EXCEPT !.retries = IF @ > 0 THEN @ - 1 ELSE 0])
                      EXCEPT !.runs = @ + 1, !.before = registry.items]
    /\ UNCHANGED <<flowVars, entries, hostVars, walk>>

\* the host loads the resources collection
RegistryLoads ==
    /\ ~registry.loaded
    /\ registry' = [registry EXCEPT !.loaded = TRUE]
    /\ UNCHANGED <<flowVars, entries, hostVars, walk>>

(* ------------------ the login-flow walker on its own ------------------ *)
(* start_login, request_sms_code and verify_code_and_get_cookie called in  *)
(* the wizard's order on one session, over every page and jar.             *)
NoCall == [fn |-> "", login |-> [net |-> "none", page |-> NoPage], sms |-> NoHttp,
           post |-> NoHttp, get |-> NoHttp, jar |-> <<>>, raised |-> NoExc]
WalkStart == [pc |-> "start_login", auth |-> NoAuth, cookie |-> "", call |-> NoCall]

WalkStartLogin ==
    /\ walk.pc = "start_login"
    /\ \E lr \in LoginResps :
         LET r == StartLogin(lr)
         IN walk' = [pc |-> IF Raised(r) THEN "failed" ELSE "request_sms_code",
                     auth |-> r.auth, cookie |-> "",
                     call |-> [NoCall EXCEPT !.fn = "start_login", !.login = lr,
                                            !.raised = r.raised]]
    /\ UNCHANGED <<flowVars, entries, hostVars, registry>>

WalkRequestSms ==
    /\ walk.pc = "request_sms_code"
    /\ \E raw \in PhoneInputs, sr \in HttpResps :
         LET r == RequestSmsCode(walk.auth, NormalizePhone(raw), sr)
         IN walk' = [walk EXCEPT
                       !.pc = IF Raised(r) THEN "failed" ELSE "verify_code",
                       !.call = [NoCall EXCEPT !.fn = "request_sms_code", !.sms = sr,
                                              !.raised = r.raised]]
    /\ UNCHANGED <<flowVars, entries, hostVars, registry>>

WalkVerify ==
    /\ walk.pc = "verify_code"
    /\ \E raw \in CodeInputs, post \in HttpResps :
       \E get \in HttpRespsIf(post.net = "ok" /\ post.status = 200) :
       \E jar \in (IF get.net = "ok" THEN Jars ELSE {<<>>}) :
         LET r == VerifyCodeAndGetCookie("open", walk.auth, <<>>, Strip(raw),
                                         post, get, jar)
         IN walk' = [walk EXCEPT
                       !.pc = IF Raised(r) THEN "failed" ELSE "done",
                       !.cookie = r.cookie,
                       !.call = [NoCall EXCEPT !.fn = "verify_code_and_get_cookie",
                                              !.post = post, !.get = get, !.jar = jar,
                                              !.raised = r.raised]]
    /\ UNCHANGED <<flowVars, entries, hostVars, registry>>

(* ------------------------- specifications --------------------------- *)
FlowStart ==
    /\ flows = 1
    /\ submits = 0
    /\ phone_number = <<>>
    /\ session = "none"
    /\ auth_session = NoAuth
    /\ cookie = ""
    /\ memberships = <<>>
    /\ selected = NoMembership
    /\ step = "user"
    /\ errors = ""
    /\ shown = {"user"}
    /\ attempt = NoAttempt
    /\ last = Last("init", NoExc, <<>>, TRUE)

HostIdle ==
    /\ estate = [e \in EntryIds |-> "not_loaded"]
    /\ pc = [e \in EntryIds |-> "idle"]
    /\ coord = [e \in EntryIds |-> NoCoord]
    /\ hass_data = [coordinators |-> {}, frontend_registered |-> FALSE]
    /\ listener = [e \in EntryIds |-> FALSE]
    /\ inflight = [e \in EntryIds |-> 0]
    /\ timer = [e \in EntryIds |-> 0]
    /\ reload_pending = [e \in EntryIds |-> FALSE]
    /\ cards = 0
    /\ polls = [e \in EntryIds |-> 0]
    /\ cycle = [e \in EntryIds |-> NoCycle]
    /\ reading = NoReading
    /\ lovelace = LovelaceReady

\* The setup wizard: no config entry exists when the first run starts.
Init ==
    /\ FlowStart
    /\ entries = [e \in EntryIds |-> NoEntry]
    /\ HostIdle
    /\ walk = WalkStart
    /\ registry = NoRegistry

Next ==
    \/ UserSubmit
    \/ VerifySubmit
    \/ SelectSubmit
    \/ OptionsSubmit
    \/ FlowInit

Spec == Init /\ [][Next]_vars

WalkNext ==
    \/ WalkStartLogin
    \/ WalkRequestSms
    \/ WalkVerify

SpecWalker == Init /\ [][WalkNext]_vars

\* The host with one config entry, as the wizard creates it (WizardEntriesShape).
HostEntries ==
    {[unique_id |-> "s1", title |-> NameOf("s1"),
      data |-> [cookie |-> "sesid=A; sesid.sig=B", organization_id |-> OrgIdOf("s1"),
                organization_slug |-> "s1"],
      options |-> [scan_interval |-> v]] : v \in {5, 45}}

HostInit ==
    /\ FlowStart
    /\ \E en \in HostEntries :
         entries = [e \in EntryIds |-> IF e = 1 THEN en ELSE NoEntry]
    /\ HostIdle
    /\ walk = WalkStart
    /\ registry = NoRegistry

HostNext ==
    \E e \in EntryIds :
        \/ SetupStart(e)
        \/ \E resp \in PollResps : PollResolve(e, resp)
        \/ RegisterCardDone(e)
        \/ TimerFire(e)
        \/ \E v \in ScanInputs, u \in BOOLEAN : OptionsFlowSubmit(e, v, u)
        \/ \E u \in BOOLEAN : PendingReload(e, u)

SpecHost == HostInit /\ [][HostNext]_vars

\* Two entries set up side by side, and the card's registration.
CardEntries ==
    [e \in EntryIds |->
        [unique_id |-> IF e = 1 THEN "s1" ELSE "s2",
         title |-> NameOf(IF e = 1 THEN "s1" ELSE "s2"),
         data |-> [cookie |-> "sesid=A; sesid.sig=B",
                   organization_id |-> OrgIdOf(IF e = 1 THEN "s1" ELSE "s2"),
                   organization_slug |-> IF e = 1 THEN "s1" ELSE "s2"],
         options |-> [scan_interval |-> 5]]]
CardResps == {PollResp("ok", 500, "ok", GoodBody), PollResp("ok", 200, "ok", GoodBody)}

CardInit ==
    /\ FlowStart
    /\ entries = CardEntries
    /\ estate = [e \in EntryIds |-> "not_loaded"]
    /\ pc = [e \in EntryIds |-> "idle"]
    /\ coord = [e \in EntryIds |-> NoCoord]
    /\ hass_data = [coordinators |-> {}, frontend_registered |-> FALSE]
    /\ listener = [e \in EntryIds |-> FALSE]
    /\ inflight = [e \in EntryIds |-> 0]
    /\ timer = [e \in EntryIds |-> 0]
    /\ reload_pending = [e \in EntryIds |-> FALSE]
    /\ cards = 0
    /\ polls = [e \in EntryIds |-> 0]
    /\ cycle = [e \in EntryIds |-> NoCycle]
    /\ reading = NoReading
    /\ lovelace \in LovelaceStates
    /\ walk = WalkStart
    /\ registry = NoRegistry

CardNext ==
    \/ \E e \in EntryIds :
          \/ SetupStart(e)
          \/ \E resp \in CardResps : PollResolve(e, resp)
          \/ RegisterCardDone(e)
    \/ RetryFire
    \/ LovelaceLoads

SpecCard == CardInit /\ [][CardNext]_vars

\* the same with the host's timers coming due: a call scheduled with
\* async_call_later is run
SpecCardLive == SpecCard /\ WF_vars(RetryFire)

\* One entry's sensor, read between the poll cycles of its coordinator.
SensorNext ==
    \E e \in EntryIds :
        \/ SetupStart(e)
        \/ \E resp \in SensorResps : PollResolve(e, resp)
        \/ RegisterCardDone(e)
        \/ TimerFire(e)
        \/ ReadState(e)

SpecSensor == HostInit /\ [][SensorNext]_vars

\* The wizard together with the options flow of the entries it has created.
OptionsNext ==
    \/ Next
    \/ \E e \in EntryIds, v \in ScanInputs, u \in BOOLEAN : OptionsFlowSubmit(e, v, u)

SpecOptions == Init /\ [][OptionsNext]_vars

\* Two entries set up, unloaded and set up again, every refresh succeeding.
UnloadResps == {PollResp("ok", 200, "ok", GoodBody)}

UnloadInit ==
    /\ FlowStart
    /\ entries = CardEntries
    /\ HostIdle
    /\ walk = WalkStart
    /\ registry = NoRegistry

UnloadNext ==
    \E e \in EntryIds :
        \/ SetupStart(e)
        \/ \E resp \in UnloadResps : PollResolve(e, resp)
        \/ RegisterCardDone(e)
        \/ TimerFire(e)
        \/ \E unload_ok \in BOOLEAN : UnloadEntry(e, unload_ok)

SpecUnload == UnloadInit /\ [][UnloadNext]_vars

\* _try_register applied, once and again, to every collection of ResourceLists
\* with every card URL.
ResourcesInit ==
    /\ FlowStart
    /\ entries = [e \in EntryIds |-> NoEntry]
    /\ HostIdle
    /\ walk = WalkStart
    /\ registry \in {Registry(items, loaded, url) :
                        items \in ResourceLists, loaded \in BOOLEAN, url \in CardUrls}

ResourcesNext ==
    \/ RegistryTryRegister
    \/ RegistryLoads

SpecResources == ResourcesInit /\ [][ResourcesNext]_vars

(* ===================== properties of the setup wizard ================== *)
VerifiedNow == last.op = "verify_code" /\ last.accepted /\ last.raised = NoExc

\* C1: when code verification succeeds with exactly one eligible membership,
\* that membership is selected and the options form is shown next, and the
\* select_organization form is never shown in that run; with two or more
\* memberships the select_organization form is shown next, and the options
\* form is not shown before it.
C1_SingleMembershipSkipsSelection ==
    /\ VerifiedNow /\ Len(memberships) = 1
         => selected = memberships[1] /\ step = "options"
    /\ Len(memberships) = 1 => "select_organization" \notin shown
    /\ VerifiedNow /\ Len(memberships) >= 2
         => step = "select_organization" /\ "options" \notin shown
    /\ Len(memberships) >= 2 /\ "options" \in shown
         => "select_organization" \in shown

C1_Witness ==
    /\ VerifiedNow
    /\ Len(memberships) = 1
    /\ step = "options"
    /\ selected = memberships[1]

C1_WitnessTwo ==
    /\ step = "create_entry"
    /\ Len(memberships) = 2
    /\ "select_organization" \in shown

\* C4: an exception other than AuthError raised while a step's submission is
\* processed is reported as the form error "unknown" on the form of that step;
\* no exception leaves a handler, so the wizard is always on a form or done.
C4_UnexpectedExceptionsReported ==
    /\ step \in {"user", "verify_code", "select_organization", "options", "create_entry"}
    /\ last.raised.type \notin {"", "AuthError"}
         => step = last.op /\ errors = "unknown"

C4_Witness ==
    /\ last.op = "options"
    /\ last.raised.type = "ClientError"
    /\ step = "options"
    /\ errors = "unknown"

\* C5: the handshake requests of one submission are in order and use the
\* tokens of the same attempt's start_login: request_sms directly follows a
\* start_login that returned an AuthSession with non-empty csrf, state and
\* nonce; the verify POST is sent only when the attempt's SMS request got 200;
\* the verify_redirect GET directly follows a verify POST that got 200; every
\* request carries the AuthSession that start_login returned in this attempt;
\* nothing follows a failed request and no request is sent twice.
C5_HandshakeInOrder ==
    LET reqs == last.reqs
    IN \A i \in DOMAIN reqs :
         /\ reqs[i].op = "request_sms"
              => /\ i > 1
                 /\ reqs[i - 1].op = "start_login"
                 /\ reqs[i - 1].ok
                 /\ reqs[i].auth = attempt.login
                 /\ attempt.login.csrf # ""
                 /\ attempt.login.state # ""
                 /\ attempt.login.nonce # ""
                 /\ attempt.login.login_url # ""
         /\ reqs[i].op = "verify_post"
              => /\ attempt.sms_ok
                 /\ reqs[i].auth = attempt.login
         /\ reqs[i].op = "verify_redirect"
              => /\ i > 1
                 /\ reqs[i - 1].op = "verify_post"
                 /\ reqs[i - 1].ok
                 /\ reqs[i].auth = attempt.login
         /\ i < Len(reqs) => reqs[i].ok
         /\ \A j \in DOMAIN reqs : j # i => reqs[j].op # reqs[i].op

C5_Witness ==
    /\ last.op = "verify_code"
    /\ Len(last.reqs) = 2
    /\ last.reqs[2].op = "verify_redirect"
    /\ last.reqs[2].auth = attempt.login
    /\ attempt.sms_ok

\* the verify POST of the latest submission was answered with a status other
\* than 200: the code was rejected
CodeRejected ==
    /\ last.op = "verify_code"
    /\ Len(last.reqs) = 1
    /\ last.reqs[1].op = "verify_post"
    /\ last.raised.type = "AuthError"

\* C7: an AuthError is shown on the form of the step it occurred in: as
\* auth_error in the user step, as invalid_code in the verify_code step when the
\* code was rejected and as cannot_connect for any other AuthError there, as
\* cannot_connect in the options step; no entry is created by that submission.
C7_AuthErrorsSurfaced ==
    last.raised.type = "AuthError"
      => /\ step = last.op
         /\ last.op = "user" => errors = "auth_error"
         /\ last.op = "verify_code"
              => errors = IF CodeRejected THEN "invalid_code" ELSE "cannot_connect"
         /\ last.op = "options" => errors = "cannot_connect"

\* C7, the part that holds: with "a rejected code" read as "an AuthError whose
\* message contains 'Verification failed'"
C7_AuthErrorsByMessage ==
    last.raised.type = "AuthError"
      => /\ step = last.op
         /\ last.op = "user" => errors = "auth_error"
         /\ last.op = "verify_code"
              => errors = IF InStr("Verification failed", last.raised)
                          THEN "invalid_code" ELSE "cannot_connect"
         /\ last.op = "options" => errors = "cannot_connect"
         /\ CodeRejected => errors = "invalid_code"

(* ====================== properties of the walker ====================== *)
\* the value of the jar's last cookie named key, read off the jar directly
LastCookie(jar, key) ==
    LET named == {i \in DOMAIN jar : jar[i].key = key}
    IN IF named = {} THEN ""
       ELSE jar[CHOOSE i \in named : \A j \in named : j <= i].value

AuthErrorSaying(e, part) == e.type = "AuthError" /\ e.msg[1] = part

\* C6: the walker ends with a cookie or with an AuthError naming the step
\* that failed. A login page without a _csrf token, else without a state, else
\* without a nonce fails start_login with the error of that token, the state
\* and the nonce being read from the final URL's query string and from the HTML
\* only when the URL has none; a non-200 SMS response, a non-200 verify
\* response and a jar without both session cookies fail with their own
\* AuthError; a failed step returns no cookie, and as long as the transport
\* itself raises nothing no other exception type is raised.
C6_CookieOrAuthError ==
    LET c == walk.call
        page == c.login.page
        noCsrf == \A i \in 1..4 : page.csrf[i] = ""
        noState == page.qs_state = "" /\ page.html_state = ""
        noNonce == page.qs_nonce = "" /\ page.html_nonce = ""
        sesid == LastCookie(c.jar, "sesid")
        sig == LastCookie(c.jar, "sesid.sig")
    IN /\ c.fn = "start_login" /\ c.login.net = "ok" =>
            /\ noCsrf => AuthErrorSaying(c.raised, "Could not find _csrf token in login page")
            /\ ~noCsrf /\ noState
                 => AuthErrorSaying(c.raised, "Could not find state in login page")
            /\ ~noCsrf /\ ~noState /\ noNonce
                 => AuthErrorSaying(c.raised, "Could not find nonce in login page")
            /\ ~noCsrf /\ ~noState /\ ~noNonce =>
                 /\ c.raised = NoExc
                 /\ walk.auth.csrf \in {page.csrf[i] : i \in 1..4} \ {""}
                 /\ walk.auth.state = IF page.qs_state # "" THEN page.qs_state
                                      ELSE page.html_state
                 /\ walk.auth.nonce = IF page.qs_nonce # "" THEN page.qs_nonce
                                      ELSE page.html_nonce
       /\ c.fn = "request_sms_code" /\ c.sms.net = "ok" =>
            IF c.sms.status = 200 THEN c.raised = NoExc
            ELSE AuthErrorSaying(c.raised, "Failed to request SMS code:")
       /\ c.fn = "verify_code_and_get_cookie" /\ c.post.net = "ok" =>
            IF c.post.status # 200 THEN AuthErrorSaying(c.raised, "Verification failed")
            ELSE c.get.net = "ok" =>
                   IF sesid = "" \/ sig = ""
                     THEN AuthErrorSaying(c.raised,
                              "Failed to obtain Vibbo session cookies after login")
                   ELSE /\ c.raised = NoExc
                        /\ walk.pc = "done"
                        /\ walk.cookie # ""
       /\ c.raised # NoExc <=> walk.pc = "failed"
       /\ walk.pc = "failed" => walk.cookie = ""
       /\ walk.cookie # "" => walk.pc = "done"
       /\ walk.pc \in {"request_sms_code", "verify_code", "done"} =>
            walk.auth.csrf # "" /\ walk.auth.state # "" /\ walk.auth.nonce # ""
       /\ c.login.net # "exc" /\ c.sms.net # "exc" /\ c.post.net # "exc" /\ c.get.net # "exc"
            => c.raised.type \in {"", "AuthError"}

C6_Witness ==
    /\ walk.pc = "done"
    /\ walk.cookie # ""
    /\ walk.auth.state = "sh"
    /\ walk.call.fn = "verify_code_and_get_cookie"
    /\ walk.call.raised = NoExc

C6_WitnessFailed ==
    /\ walk.pc = "failed"
    /\ walk.call.fn = "start_login"
    /\ walk.call.login.page.csrf[1] # ""
    /\ AuthErrorSaying(walk.call.raised, "Could not find state in login page")

(* ------------------------- the polling cycle ------------------------- *)
Resolved(e) == cycle[e].phase = "idle"
Answered200(e) ==
    /\ Resolved(e)
    /\ cycle[e].resp.net = "ok"
    /\ cycle[e].resp.status = 200
    /\ cycle[e].resp.json = "ok"
RequestFailed(e) == Resolved(e) /\ ~Answered200(e)

\* the malformed bodies: not a mapping, no data or a null data, no stream or a
\* null stream (the errors are read only for bodies among these)
Malformed(b) ==
    \/ b.top # "dict"
    \/ b.data \in {"absent", "null"}
    \/ b.data = "dict" /\ b.stream \in {"absent", "null"}

\* C2: a poll answered 200 with a malformed JSON body (no mapping, data or
\* stream missing or null, a first error that is no mapping) raises
\* UpdateFailed.
C2_MalformedRaisesUpdateFailed ==
    \A e \in EntryIds :
        Answered200(e) /\ Malformed(cycle[e].resp.body)
            => cycle[e].raised.type = "UpdateFailed"

\* the malformed bodies for which C2's statement does hold
C2_MalformedHandled ==
    \A e \in EntryIds :
        /\ Answered200(e)
        /\ \/ cycle[e].resp.body.top # "dict"
           \/ cycle[e].resp.body.data = "absent"
           \/ cycle[e].resp.body.data = "dict" /\ cycle[e].resp.body.stream = "absent"
        /\ cycle[e].resp.body.errors \in {"absent", "null", "empty", "list_dict_msg", "list_dict"}
        => cycle[e].raised.type = "UpdateFailed"

\* C3: a poll whose request fails, times out or is answered with a status
\* other than 200 raises UpdateFailed; after a failed poll the sensor is
\* unavailable, and after a successful one the added sensor is available.
C3_FailedPollUnavailable ==
    \A e \in EntryIds :
        /\ RequestFailed(e) =>
              cycle[e].raised.type = "UpdateFailed" /\ cycle[e].outcome = "failed"
        /\ cycle[e].outcome = "failed" => ~Available(e)
        /\ cycle[e].outcome = "success" /\ e \in hass_data.coordinators => Available(e)

C3_Witness ==
    \E e \in EntryIds :
        /\ cycle[e].kind = "scheduled"
        /\ RequestFailed(e)
        /\ cycle[e].resp.status = 500
        /\ e \in hass_data.coordinators
        /\ ~Available(e)

C3_WitnessRecovered ==
    \E e \in EntryIds :
        /\ cycle[e].kind = "scheduled"
        /\ Answered200(e)
        /\ polls[e] = 3
        /\ Available(e)

\* C8: every resolved polling cycle has sent exactly one POST and ended in
\* either an item list or UpdateFailed.
C8_CycleResolvesOneOfTwo ==
    \A e \in EntryIds :
        Resolved(e) =>
            /\ cycle[e].posts = 1
            /\ \/ cycle[e].raised = NoExc /\ cycle[e].outcome = "success"
               \/ cycle[e].raised.type = "UpdateFailed" /\ cycle[e].outcome = "failed"

\* C9: at every moment at most one _async_update_data call is in flight per
\* coordinator, and no refresh is scheduled while one is in flight.
C9_SingleFlight ==
    \A e \in EntryIds :
        /\ inflight[e] <= 1
        /\ inflight[e] = 1 <=> cycle[e].phase = "fetching"
        /\ inflight[e] = 1 => timer[e] = 0

C9_Witness ==
    \E e \in EntryIds :
        /\ inflight[e] = 1
        /\ cycle[e].kind = "scheduled"
        /\ polls[e] = 3

C9_WitnessReload ==
    \E e \in EntryIds :
        /\ inflight[e] = 1
        /\ cycle[e].kind = "first"
        /\ cycle[e].built_from # 0
        /\ polls[e] >= 2
        /\ estate[e] = "setup_in_progress"

\* C10: a coordinator's update interval is the scan_interval option its entry
\* held when it was built (30 when the option is absent); successes and
\* failures do not change it, and a scheduled refresh is due after it.
C10_IntervalFromOptions ==
    \A e \in EntryIds :
        coord[e] # NoCoord =>
            /\ coord[e].update_interval =
                 IF cycle[e].built_from = 0 THEN 30 ELSE cycle[e].built_from
            /\ timer[e] # 0 => timer[e] = coord[e].update_interval

C10_Witness ==
    \E e \in EntryIds :
        /\ coord[e] # NoCoord
        /\ cycle[e].kind = "scheduled"
        /\ cycle[e].outcome = "failed"
        /\ Resolved(e)
        /\ timer[e] = 5

C10_WitnessChanged ==
    \E e \in EntryIds :
        /\ coord[e] # NoCoord
        /\ cycle[e].outcome = "success"
        /\ timer[e] = 45
        /\ polls[e] >= 2

\* every entry the wizard creates has the shape of the host's entries
WizardEntriesShape ==
    \A e \in EntryIds :
        entries[e] # NoEntry =>
            /\ entries[e].options.scan_interval >= MinScanInterval
            /\ entries[e].data.organization_id = OrgIdOf(entries[e].data.organization_slug)
            /\ entries[e].unique_id = entries[e].data.organization_slug

(* --------------------------- the interval form -------------------------- *)
IntervalSubmitted == last.op \in {"options", "options_init"}

\* C11: a scan interval below 5 is rejected by the interval form of the
\* wizard's options step and of the options flow's init step, and the
\* scan_interval stored in every config entry's options is an integer >= 5.
C11_ScanIntervalAtLeastFive ==
    /\ IntervalSubmitted /\ last.scan_interval < 5 => ~last.accepted
    /\ \A e \in EntryIds :
          entries[e] # NoEntry =>
              /\ entries[e].options.scan_interval \in Int
              /\ entries[e].options.scan_interval >= 5

C11_Witness ==
    /\ last.op = "options_init"
    /\ last.scan_interval = 4
    /\ ~last.accepted
    /\ \E e \in EntryIds : entries[e] # NoEntry

C11_WitnessWizard ==
    /\ last.op = "options"
    /\ last.scan_interval = 4
    /\ ~last.accepted
    /\ step = "options"

C11_WitnessStored ==
    /\ last.op = "options_init"
    /\ last.accepted
    /\ \E e \in EntryIds : \E o \in EntryIds :
          /\ entries[e] # NoEntry /\ entries[o] # NoEntry
          /\ entries[e].options.scan_interval = 5
          /\ entries[o].options.scan_interval = 45

(* ------------------------ the credential bundle ------------------------ *)
AlreadyConfigured == last.op = "options" /\ last.raised.type = "AbortFlow"

\* the entry of the wizard run that has just ended holds the run's cookie, the
\* organization id resolved for the selected slug, and that slug
EntryOfThisRun ==
    step = "create_entry" =>
        /\ cookie # ""
        /\ \E e \in EntryIds :
              entries[e].data = [cookie |-> cookie,
                                 organization_id |-> OrgIdOf(selected.slug),
                                 organization_slug |-> selected.slug]

OneEntryPerSlug ==
    \A e \in EntryIds : \A o \in EntryIds :
        /\ entries[e] # NoEntry
        /\ entries[e].data.organization_slug = entries[o].data.organization_slug
        => e = o

\* C12: a config entry is created only at the end of a wizard run that
\* verified the code and resolved the organization id, and holds that cookie,
\* id and slug; when the selected slug is already configured the flow aborts
\* as already configured; no two entries have the same organization slug.
C12_CredentialBundleOnce ==
    /\ EntryOfThisRun
    /\ OneEntryPerSlug
    /\ AlreadyConfigured => step = "abort"

\* the parts of C12 that hold: the entry's content and one entry per slug
C12_BundleContent == EntryOfThisRun /\ OneEntryPerSlug

(* ------------------------------ the sensor ----------------------------- *)
\* the latest reading is of entry e's sensor and of its present snapshot
Fresh(e) ==
    /\ reading.entry = e
    /\ reading.polls = polls[e]
    /\ reading.phase = cycle[e].phase

HasItems(e) == coord[e].data.kind = "list" /\ coord[e].data.list # <<>>
FirstItem(e) == coord[e].data.list[1]
HasTitle(e) ==
    /\ HasItems(e)
    /\ FirstItem(e).elem = "dict"
    /\ FirstItem(e).item = "dict"
    /\ FirstItem(e).title = "str"

\* C13: when the first item of the snapshot has a title of more than 50
\* characters the state is the title's first 50 characters followed by one
\* ellipsis character, 51 characters in all; a title of 50 characters or
\* fewer is the state unchanged.
C13_TitleTruncated ==
    \A e \in EntryIds :
        Fresh(e) /\ HasTitle(e) =>
            LET title == FirstItem(e).text
                value == reading.state.value
            IN /\ reading.state.raised = NoExc
               /\ Len(title) > 50 =>
                     /\ Len(value) = 51
                     /\ \A k \in 1..50 : value[k] = title[k]
                     /\ value[51] = 8230
               /\ Len(title) <= 50 => value = title

C13_Witness ==
    \E e \in EntryIds :
        /\ Fresh(e) /\ HasTitle(e)
        /\ Len(FirstItem(e).text) = 52
        /\ Len(reading.state.value) = 51

C13_WitnessFifty ==
    \E e \in EntryIds :
        /\ Fresh(e) /\ HasTitle(e)
        /\ Len(FirstItem(e).text) = 50
        /\ reading.state.value = FirstItem(e).text

\* the snapshots C14 calls absent data
DataAbsent(e) ==
    \/ ~HasItems(e)
    \/ /\ FirstItem(e).elem = "dict"
       /\ \/ FirstItem(e).item \in {"absent", "null"}
          \/ FirstItem(e).item = "dict" /\ FirstItem(e).title \in {"absent", "null"}

\* C14: reading the state raises no exception for any snapshot, and the state
\* is "No Data" when there is no snapshot, the item list is empty, the first
\* item has no or a null 'item', or the item has no or a null title.
C14_TotalWithPlaceholder ==
    \A e \in EntryIds :
        Fresh(e) =>
            /\ reading.state.raised = NoExc
            /\ DataAbsent(e) => reading.state.value = NoDataText

\* the part of C14 that holds: the placeholder for no snapshot, an empty list,
\* a first item without 'item' and an item without title
C14_PlaceholderWhenMissing ==
    \A e \in EntryIds :
        /\ Fresh(e)
        /\ \/ ~HasItems(e)
           \/ /\ FirstItem(e).elem = "dict"
              /\ \/ FirstItem(e).item = "absent"
                 \/ FirstItem(e).item = "dict" /\ FirstItem(e).title = "absent"
        => reading.state = Value(NoDataText)

\* C15: the attributes have exactly the keys 'items' and 'organization_slug';
\* 'items' is the item list of the coordinator's latest snapshot, the empty
\* list when there is none, and 'organization_slug' is the slug of the config
\* entry; reading the state or the attributes leaves the snapshot as it is.
C15_AttributesOfSnapshot ==
    /\ [](\A e \in EntryIds :
            Fresh(e) =>
                /\ DOMAIN reading.attributes = {"items", "organization_slug"}
                /\ reading.attributes.items.kind = "list"
                /\ reading.attributes.items.list =
                      IF coord[e].data.kind = "list" THEN coord[e].data.list ELSE <<>>
                /\ Resolved(e) /\ cycle[e].outcome = "success" =>
                      reading.attributes.items.list =
                         IF cycle[e].resp.body.items = "list"
                           THEN cycle[e].resp.body.list ELSE <<>>
                /\ reading.attributes.organization_slug =
                      entries[e].data.organization_slug)
    /\ [][reading' # reading => UNCHANGED <<coord, entries, cycle>>]_vars

C15_Witness ==
    \E e \in EntryIds :
        /\ Fresh(e)
        /\ cycle[e].kind = "scheduled"
        /\ cycle[e].outcome = "failed"
        /\ Len(reading.attributes.items.list) = 2
        /\ reading.attributes.organization_slug = "s1"

C15_WitnessNone ==
    \E e \in EntryIds :
        /\ Fresh(e)
        /\ coord[e].data.kind = "none"
        /\ reading.attributes.items = ListData(<<>>)

(* ------------------------------- the card ------------------------------ *)
\* C16: across the config entries and every interleaving of their
\* async_setup_entry calls, _async_register_card is executed at most once and
\* at most one Lovelace resource is created for the card.
C16_CardRegisteredOnce ==
    /\ cards <= 1
    /\ lovelace.creates <= 1

\* the part of C16 that holds: at most one resource is created, and a
\* resource is created or updated at most once
C16_OneResourceCreated ==
    /\ lovelace.creates + lovelace.updates <= 1
    /\ lovelace.creates = 1 => lovelace.resource = "current"

RegistrationOver ==
    /\ hass_data.frontend_registered
    /\ lovelace.retries = <<>>
    /\ \A e \in EntryIds : pc[e] # "register_card"

\* C18: while the resources collection is not loaded _try_register makes no
\* create and no update and stays scheduled, 5 seconds ahead; once the
\* collection is loaded the pending calls complete and none is scheduled
\* again, with one create, one update or no change in all.
C18_RetryUntilLoaded ==
    /\ [](~lovelace.loaded => lovelace.creates = 0 /\ lovelace.updates = 0)
    /\ [](\A i \in DOMAIN lovelace.retries : lovelace.retries[i] = 5)
    /\ [][~lovelace.loaded /\ ~lovelace'.loaded
            => Len(lovelace'.retries) >= Len(lovelace.retries)]_vars
    /\ [][lovelace.loaded => Len(lovelace'.retries) <= Len(lovelace.retries)]_vars
    /\ [](RegistrationOver /\ lovelace.file /\ lovelace.mode = "storage"
            => /\ lovelace.loaded
               /\ lovelace.resource = "current"
               /\ lovelace.creates + lovelace.updates <= 1)
    /\ (lovelace.loaded ~> lovelace.retries = <<>>)

C18_Witness ==
    /\ lovelace.mode = "storage"
    /\ ~lovelace.loaded
    /\ Len(lovelace.retries) = 1
    /\ cards = 1
    /\ hass_data.frontend_registered

C18_WitnessUpdated ==
    /\ RegistrationOver
    /\ lovelace.updates = 1
    /\ lovelace.creates = 0

(* ----------------------------- credentials ----------------------------- *)
\* the server rejects the cookie of the latest resolved cycle
CookieRejected(e) == Resolved(e) /\ cycle[e].resp.net = "ok" /\ cycle[e].resp.status = 403

\* C17: the cookie and the organization id a coordinator holds and sends are
\* those of its config entry; no poll cycle changes them or the entry's data;
\* a cycle the server answers by rejecting the cookie fails, whatever cycles
\* came before it.
C17_NoCredentialRefresh ==
    /\ [](\A e \in EntryIds :
            /\ coord[e] # NoCoord =>
                  /\ coord[e].cookie = entries[e].data.cookie
                  /\ coord[e].org_id = entries[e].data.organization_id
            /\ cycle[e].phase # "none" =>
                  /\ cycle[e].request.cookie = entries[e].data.cookie
                  /\ cycle[e].request.cookie # ""
                  /\ cycle[e].request.organization_id = entries[e].data.organization_id
            /\ CookieRejected(e) =>
                  cycle[e].outcome = "failed" /\ ~Available(e))
    /\ [][\A e \in EntryIds : entries'[e].data = entries[e].data]_vars

C17_Witness ==
    \E e \in EntryIds :
        /\ CookieRejected(e)
        /\ cycle[e].kind = "scheduled"
        /\ polls[e] = 3
        /\ coord[e].data.kind = "list"
        /\ cycle[e].request.cookie = "sesid=A; sesid.sig=B"

(* --------------------------- options and reload ------------------------- *)
\* C19: after an entry's options have changed the entry is reloaded, and the
\* coordinator that polls then has the newly stored scan_interval: a loaded
\* entry with no reload waiting polls at the interval its options hold; the
\* unloaded coordinator is out of hass.data and has no refresh scheduled.
C19_ReloadOnOptionsChange ==
    \A e \in EntryIds :
        /\ estate[e] = "loaded" /\ ~reload_pending[e] =>
              /\ coord[e].update_interval = entries[e].options.scan_interval
              /\ timer[e] # 0 => timer[e] = entries[e].options.scan_interval
        /\ estate[e] = "setup_in_progress" /\ pc[e] = "first_refresh" =>
              e \notin hass_data.coordinators /\ timer[e] = 0

\* the part of C19 that holds: a change of options made while the update
\* listener is registered and the entry is loaded unloads the coordinator and
\* builds one with the new interval, unless the platform fails to unload
C19_ListenerReloads ==
    [][\A e \in EntryIds :
          /\ listener[e]
          /\ estate[e] = "loaded"
          /\ entries'[e].options # entries[e].options
          /\ estate'[e] # "failed_unload"
          => /\ coord'[e].update_interval = entries'[e].options.scan_interval
             /\ e \notin hass_data'.coordinators
             /\ timer'[e] = 0
             /\ inflight'[e] = 1
             /\ ~listener'[e]]_vars

(* --------------------------- the session cookie ------------------------ *)
VerifyCalled == walk.call.fn = "verify_code_and_get_cookie"
RedirectFollowed ==
    /\ VerifyCalled
    /\ walk.call.post.net = "ok" /\ walk.call.post.status = 200
    /\ walk.call.get.net = "ok"

\* C20: verify_code_and_get_cookie returns a cookie only when the jar holds
\* non-empty values for both 'sesid' and 'sesid.sig' after the redirect chain,
\* and the cookie is 'sesid=<sesid>; sesid.sig=<sig>'; when either is missing
\* it raises AuthError; the status of the final redirect response plays no
\* part.
C20_CookieFromJar ==
    LET sesid == LastCookie(walk.call.jar, "sesid")
        sig == LastCookie(walk.call.jar, "sesid.sig")
    IN VerifyCalled =>
          /\ walk.cookie # "" =>
                /\ RedirectFollowed
                /\ sesid # "" /\ sig # ""
                /\ walk.cookie = "sesid=" \o sesid \o "; sesid.sig=" \o sig
          /\ RedirectFollowed /\ (sesid = "" \/ sig = "") =>
                /\ walk.cookie = ""
                /\ AuthErrorSaying(walk.call.raised,
                      "Failed to obtain Vibbo session cookies after login")
          /\ RedirectFollowed /\ sesid # "" /\ sig # "" =>
                walk.call.raised = NoExc /\ walk.cookie # ""

C20_Witness ==
    /\ RedirectFollowed
    /\ walk.call.get.status = 403
    /\ Len(walk.call.jar) = 2
    /\ walk.call.jar[1].key = "sesid.sig"
    /\ walk.cookie = "sesid=A; sesid.sig=B"

C20_WitnessMissing ==
    /\ RedirectFollowed
    /\ walk.call.get.status = 200
    /\ walk.call.jar = <<[key |-> "sesid", value |-> "A"],
                         [key |-> "sesid.sig", value |-> ""]>>
    /\ walk.call.raised.type = "AuthError"

(* ------------------------- the wizard's session ------------------------ *)
VerifySubmitted == last.op = "verify_code" /\ last.accepted

\* C21: every verify_code submission is processed with an open HTTP session
\* and the AuthSession of the same attempt's user step: its verify POST is
\* sent, with that AuthSession, also when an earlier verify_code submission
\* ended in a form error.
C21_VerifyAgainstLiveSession ==
    VerifySubmitted =>
        /\ last.reqs # <<>>
        /\ last.reqs[1].op = "verify_post"
        /\ last.reqs[1].auth = attempt.login

\* the part of C21 that holds: after a rejected code, or cookies missing from
\* the jar, the session stays open and the AuthSession is the attempt's
C21_RejectedCodeKeepsSession ==
    /\ VerifySubmitted
    /\ last.raised.type = "AuthError"
    /\ last.reqs # <<>>
    /\ cookie = ""
    => /\ session = "open"
       /\ auth_session = attempt.login
       /\ step = "verify_code"

\* C22: the session opened in the user step is closed when the user step
\* fails, when the code has been verified, and on an unexpected exception in
\* the verify step: a wizard on the user form, past the verify_code form or
\* done holds no open session, so a user-step submission finds none to
\* overwrite.
C22_SessionClosed ==
    /\ step \in {"user", "select_organization", "options", "create_entry"}
          => session = "none"
    /\ last.op = "user" /\ last.raised # NoExc => session = "none"
    /\ VerifySubmitted /\ last.raised = NoExc => session = "none"
    /\ VerifySubmitted /\ last.raised.type \notin {"", "AuthError"}
          => session = "none"
    /\ session = "open" => step = "verify_code"

C22_Witness ==
    /\ VerifySubmitted
    /\ last.raised.type = "ClientError"
    /\ last.reqs # <<>>
    /\ session = "none"
    /\ errors = "unknown"

C22_WitnessUser ==
    /\ last.op = "user"
    /\ last.raised.type = "AuthError"
    /\ Len(last.reqs) = 2
    /\ step = "user"
    /\ session = "none"

C22_WitnessDone ==
    /\ step = "create_entry"
    /\ flows = 2
    /\ session = "none"

(* ------------------------ the resources collection --------------------- *)
CardItems(items) ==
    {i \in DOMAIN items : SplitFirst(items[i].url) = <<FRONTEND_SCRIPT_URL>>}
RanOnLoaded == registry.runs >= 1 /\ registry.ended # "retry"

\* C23: after _try_register completes on a loaded collection that held at
\* most one resource with the card path, the collection holds exactly one,
\* with the card URL; a resource that was there keeps its place and id and is
\* not duplicated, the other resources are untouched, and one more
\* _try_register changes nothing.
C23_RegistrationIdempotent ==
    RanOnLoaded /\ Cardinality(CardItems(registry.before)) <= 1 =>
        LET before == registry.before
            items == registry.items
        IN /\ Cardinality(CardItems(items)) = 1
           /\ \A i \in CardItems(items) : items[i].url = registry.card_url
           /\ CardItems(before) # {} =>
                 /\ Len(items) = Len(before)
                 /\ CardItems(items) = CardItems(before)
                 /\ \A i \in DOMAIN items : items[i].id = before[i].id
           /\ CardItems(before) = {} => Len(items) = Len(before) + 1
           /\ \A i \in DOMAIN before \ CardItems(before) : items[i] = before[i]
           /\ \A i, j \in DOMAIN items : items[i].id = items[j].id => i = j
           /\ ResourcesTryRegister(registry).items = items
           /\ registry.runs >= 2 /\ Cardinality(CardItems(before)) = 1
                 /\ (\A i \in CardItems(before) : before[i].url = registry.card_url)
                 => items = before /\ registry.ended = "kept"

C23_Witness ==
    /\ registry.runs = 1
    /\ registry.ended = "updated"
    /\ Len(registry.before) = 2
    /\ registry.before[2].url = <<FRONTEND_SCRIPT_URL, "?", "a1">>
    /\ registry.card_url = <<FRONTEND_SCRIPT_URL, "?", "b2">>
    /\ registry.items[2] = ResourceItem(2, "module", registry.card_url)
    /\ registry.items[1] = registry.before[1]

C23_WitnessAgain ==
    /\ registry.runs = 3
    /\ registry.ended = "kept"
    /\ registry.retries = 0
    /\ Len(registry.items) = 2
    /\ registry.items[2].url = registry.card_url
    /\ registry.items[1].url = <<"/local/other.js">>

(* ------------------------------- unloading ----------------------------- *)
NoRegistrationPending == \A e \in EntryIds : pc[e] # "register_card"
AllUnloaded ==
    /\ hass_data.coordinators = {}
    /\ \A e \in EntryIds : estate[e] = "not_loaded" /\ pc[e] = "idle"

\* C24: a failed unload leaves hass.data[DOMAIN] as it was; a successful one
\* removes that entry's coordinator and nothing else, so the other entries'
\* coordinators and the 'frontend_registered' flag stay; a loaded entry has
\* the flag set, the flag is never removed, a setup that finds it does not
\* register the card, and once the flag is set and no registration is under
\* way the card is never registered again, also after the last entry has
\* been unloaded and an entry is set up again.
C24_UnloadKeepsRest ==
    /\ [](\A e \in EntryIds : estate[e] = "loaded" =>
             hass_data.frontend_registered /\ e \in hass_data.coordinators)
    /\ [][\A e \in EntryIds :
             estate[e] = "loaded" /\ estate'[e] = "failed_unload"
                => hass_data' = hass_data]_vars
    /\ [][\A e \in EntryIds :
             estate[e] = "loaded" /\ estate'[e] = "not_loaded"
                => /\ hass_data'.coordinators = hass_data.coordinators \ {e}
                   /\ hass_data'.frontend_registered = hass_data.frontend_registered]_vars
    /\ [][hass_data.frontend_registered => hass_data'.frontend_registered]_vars
    /\ [][\A e \in EntryIds :
             hass_data.frontend_registered /\ pc[e] # "register_card"
                => pc'[e] # "register_card"]_vars
    /\ \A n \in 0..NumEntries :
          [](hass_data.frontend_registered /\ NoRegistrationPending /\ cards = n
                => [](cards = n))

\* the first entry was loaded alone, unloaded, and is loaded again
C24_Witness ==
    /\ polls[2] = 0
    /\ polls[1] = 2
    /\ estate[1] = "loaded"
    /\ hass_data = [coordinators |-> {1}, frontend_registered |-> TRUE]
    /\ cards = 1

C24_WitnessAllUnloaded ==
    /\ AllUnloaded
    /\ hass_data.frontend_registered
    /\ polls[1] = 1 /\ polls[2] = 1

C24_WitnessFailed ==
    /\ estate[1] = "failed_unload"
    /\ estate[2] = "not_loaded" /\ polls[2] = 1
    /\ hass_data = [coordinators |-> {1}, frontend_registered |-> TRUE]

====
